---- MODULE Spec2Model ----
(***************************************************************************)
(* CS2 patch-notes bot, RSS variant (src/bot.js lines 416-707).            *)
(*                                                                         *)
(* One Node.js process.  Every continuation between two awaits is one      *)
(* atomic action: the event loop runs a continuation to its next await     *)
(* before it runs anything else.  The suspension points of processOnce    *)
(* are the RSS fetch, the HTTP request of post(), the back-off sleep after *)
(* a 429 and the pacing sleeps.  Time is abstract: a sleep is a state that *)
(* carries the duration handed to setTimeout, and a network call may take  *)
(* any time, so the interval timer may fire at any point once installed.   *)
(***************************************************************************)
EXTENDS Integers, Sequences, FiniteSets, TLC

\* ------------------------------------------------------------- bounds
\* non-ok answers (429, HTTP error, transport error) of the channel API in
\* one process run
MaxFaults == 3
\* words in a title or a description handed to isLikelyCs2Patch on its own
MaxWords == 2
\* tokens in the content of a heading element handed to htmlToText on its own
MaxHeading == 4
\* tokens in a text handed to htmlToText on its own
MaxText == 5
\* entries of a feed handed to the selection loop on its own
MaxFeed == 3

\* ---------------------------------------------------- program constants
LIMIT == 2000
SliceStep == 1800
attempts == 3
PaceParts == 600
PaceLink == 400
DefaultWait == 800
\* length of `${CUSTOM_EMOJI}  **Uusi CS2-päivitys!**`
HeaderLineLen == 54
\* length of "Patch notes available at the links below."
DefaultBodyLen == 41
\* the shortest body the URL-scraping variant of processOnce publishes
MinUsableLen == 10
\* JSON-API variant: the slice step of its chunksWithHeader, the shortest
\* Finnish contents it publishes, the length of the header tag " [EN]"
ApiSliceStep == 1900
MinContents == 20
EnTagLen == 5

\* Activations of processOnce that may be suspended at the same time: the
\* one that started first and one that a later timer tick started.
Cycles == {1, 2}

\* ------------------------------------------------------------- links
\* A link is <<shape, slug>>; the shape is what the regular expressions of
\* isLikelyCs2Patch can tell about it.
NullLink == <<>>
EmptyLink == <<"", "">>
LinkA == <<"updates", "a">>
LinkB == <<"app730", "b">>
LinkX == <<"post", "x">>
Landing == <<"landing", "updates?l=finnish">>

\* ------------------------------------------------------------- feed
\* A title or a description is the sequence of its words, in lower case (the
\* regular expressions ignore case); the white space between two words is
\* implied.  A pattern is a sequence of words that must occur side by side.
\* /(release\s*notes|patch|update|client\s*update|game\s*update)/i
UpdateKeywords == { <<"release", "notes">>, <<"patch">>, <<"update">>,
                    <<"client", "update">>, <<"game", "update">> }
\* /counter[-\s]?strike|cs2\b/i
ProductNames == { <<"counter-strike">>, <<"counterstrike">>, <<"counter", "strike">>, <<"cs2">> }

\* re.test(text) for the alternation of the patterns
Contains(text, patterns) ==
  \E pat \in patterns : \E i \in 1..(Len(text) - Len(pat) + 1) :
    SubSeq(text, i, i + Len(pat) - 1) = pat

hasUpdateKeywords(title, description) ==
  Contains(title, UpdateKeywords) \/ Contains(description, UpdateKeywords)

\* mentionsCs tests (title || "") + " " + (description || ""): one string,
\* the words of the title followed by the words of the description
isLikelyCs2Patch(e) ==
  LET kw == hasUpdateKeywords(e.title, e.desc)
      mentionsCs == Contains(e.title \o e.desc, ProductNames)
  IN  IF e.link[1] \in {"app730", "updates"} THEN kw
      ELSE IF e.link[1] = "post" THEN kw /\ mentionsCs
      ELSE FALSE

\* the entries the feed may hold: link, title, description,
\* length of the text htmlToText gives for the entry's content
EntryA == [link |-> LinkA, title |-> <<"client", "update">>, desc |-> <<>>, textLen |-> 12]
EntryA0 == [link |-> LinkA, title |-> <<"client", "update">>, desc |-> <<>>, textLen |-> 0]
EntryB == [link |-> LinkB, title |-> <<"release", "notes">>, desc |-> <<"cs2">>, textLen |-> 2100]
EntryX == [link |-> LinkX, title |-> <<"rimworld", "patch">>, desc |-> <<>>, textLen |-> 30]
\* an entry without a <link> element: link is ""
EntryE == [link |-> EmptyLink, title |-> <<"cs2", "update">>, desc |-> <<>>, textLen |-> 30]

Feeds == { <<EntryX>>, <<EntryA>>, <<EntryA0>>, <<EntryX, EntryB, EntryA>>,
           <<EntryE, EntryA>> }

NoItem == [sourceLink |-> NullLink, textLen |-> 0]
Items == { [sourceLink |-> e.link, textLen |-> e.textLen] : e \in {EntryA, EntryA0, EntryB, EntryX} }

RECURSIVE FirstAccepted(_)
FirstAccepted(items) ==
  IF items = <<>> THEN NoItem
  ELSE IF isLikelyCs2Patch(Head(items))
       THEN [sourceLink |-> Head(items).link, textLen |-> Head(items).textLen]
       ELSE FirstAccepted(Tail(items))

fetchLatestUpdateItem(feed) == FirstAccepted(feed)

\* ------------------------------------------------------------- htmlToText
\* A text is a sequence of tokens: a token is one character or one whole
\* tag (markup characters occur in tags only), or one character entity.
Blank == {" ", "\t"}
WhiteSpace == {" ", "\t", "\n", "\r"}
UpperOf == ("f" :> "F") @@ ("o" :> "O") @@ ("b" :> "B") @@ ("a" :> "A") @@ ("r" :> "R")
Entities == ("&amp;" :> "&") @@ ("&#10;" :> "\n")
\* the tags each regular expression takes for its opening and closing tag
OpenBbH2 == {"<div class=bb_h2>"}
OpenH == {"<h1>", "<h2>", "<h3>"}
CloseH == {"</h1>", "</h2>", "</h3>"}
OpenP == {"<p>"}
OpenDiv == {"<div>", "<div class=bb_h2>"}
OpenI == {"<i>", "<img>"}
Tags == OpenH \cup CloseH \cup OpenP \cup OpenDiv \cup OpenI \cup
        {"</p>", "</div>", "<br>", "<li>", "</li>", "<strong>", "</strong>", "<b>", "</b>",
         "</i>", "<em>", "</em>", "<a href>", "</a>", "<script>", "</script>",
         "<style>", "</style>", "<span>", "</span>"}

\* s.replace(/x/g, y) for single tokens: tab maps a token to its replacement
RECURSIVE Expand(_, _)
Expand(s, tab) ==
  IF s = <<>> THEN <<>>
  ELSE (IF Head(s) \in DOMAIN tab THEN tab[Head(s)] ELSE <<Head(s)>>) \o Expand(Tail(s), tab)

Without(s, toks) == SelectSeq(s, LAMBDA t : t \notin toks)

\* the first position from `from` on that holds a token of toks, 0 if none
RECURSIVE First(_, _, _)
First(s, toks, from) ==
  IF from > Len(s) THEN 0
  ELSE IF s[from] \in toks THEN from
  ELSE First(s, toks, from + 1)

\* String.prototype.trim
RECURSIVE TrimLeft(_)
TrimLeft(s) == IF s # <<>> /\ Head(s) \in WhiteSpace THEN TrimLeft(Tail(s)) ELSE s
RECURSIVE TrimRight(_)
TrimRight(s) ==
  IF s # <<>> /\ s[Len(s)] \in WhiteSpace THEN TrimRight(SubSeq(s, 1, Len(s) - 1)) ELSE s
Trim(s) == TrimRight(TrimLeft(s))

toUpperCase(s) == [i \in 1..Len(s) |-> IF s[i] \in DOMAIN UpperOf THEN UpperOf[s[i]] ELSE s[i]]

\* mutant of Heading: the brackets of the URL-scraping variant, `[${clean}]`
HeadingTight(t) ==
  LET clean == toUpperCase(Trim(Without(t, Tags)))
  IN  IF clean # <<>> THEN <<"\n", "[">> \o clean \o <<"]", "\n">> ELSE <<"\n">>

\* the replacement of a heading element with content t
Heading(t) ==
  LET clean == toUpperCase(Trim(Without(t, Tags)))
  IN  IF clean # <<>> THEN <<"\n", "[", " ">> \o clean \o <<" ", "]", "\n">> ELSE <<"\n">>

\* the replacement of the element kind with content t
Wrap(kind, t) ==
  CASE kind = "bb_h2" -> <<"<h2>">> \o t \o <<"</h2>">>
    [] kind = "h" -> Heading(t)
    [] kind = "bold" -> <<"*", "*">> \o t \o <<"*", "*">>
    [] kind = "italic" -> <<"*">> \o t \o <<"*">>
    [] kind = "a" -> t
    [] kind = "drop" -> <<>>

\* s.replace(/<open>([\s\S]*?)<close>/g, ...): from left to right, each
\* opening tag that has a closing tag after it is replaced together with
\* everything up to the nearest closing tag
RECURSIVE ReplacePaired(_, _, _, _)
ReplacePaired(s, opens, closes, kind) ==
  LET i == First(s, opens, 1)
      j == First(s, closes, i + 1)
  IN  IF i = 0 \/ j = 0 THEN s
      ELSE SubSeq(s, 1, i - 1) \o Wrap(kind, SubSeq(s, i + 1, j - 1))
           \o ReplacePaired(SubSeq(s, j + 1, Len(s)), opens, closes, kind)

\* the tokens of s at the positions keep, in order
RECURSIVE Pick(_, _, _)
Pick(s, keep, i) ==
  IF i > Len(s) THEN <<>>
  ELSE (IF i \in keep THEN <<s[i]>> ELSE <<>>) \o Pick(s, keep, i + 1)

\* s.replace(/[ \t]+\n/g, "\n")
DropBlanksBeforeNewline(s) ==
  Pick(s, { i \in 1..Len(s) :
              ~(\E j \in (i + 1)..Len(s) :
                  s[j] = "\n" /\ \A k \in i..(j - 1) : s[k] \in Blank) }, 1)

\* mutant of CollapseNewlines: /\n{4,}/ in place of /\n{3,}/
CollapseLongerRuns(s) ==
  Pick(s, { i \in 1..Len(s) :
              ~(i >= 4 /\ s[i] = "\n" /\ s[i - 1] = "\n" /\ s[i - 2] = "\n"
                  /\ s[i - 3] = "\n") }, 1)

\* s.replace(/\n{3,}/g, "\n\n")
CollapseNewlines(s) ==
  Pick(s, { i \in 1..Len(s) :
              ~(i >= 3 /\ s[i] = "\n" /\ s[i - 1] = "\n" /\ s[i - 2] = "\n") }, 1)

htmlDecode(input) == Expand(input, [e \in DOMAIN Entities |-> <<Entities[e]>>])

htmlToText(htmlRaw) ==
  LET html == ReplacePaired(htmlDecode(htmlRaw), OpenBbH2, {"</div>"}, "bb_h2")
      s1 == Without(html, {"\r"})
      s2 == Expand(s1, ("<br>" :> <<"\n">>) @@ ("<li>" :> <<"*", " ">>) @@ ("</li>" :> <<"\n">>))
      s3 == ReplacePaired(s2, OpenH, CloseH, "h")
      s4 == Expand(s3, [t \in OpenP \cup OpenDiv \cup {"</p>", "</div>"} |-> <<"\n">>])
      s5 == ReplacePaired(s4, {"<strong>"}, {"</strong>"}, "bold")
      s6 == ReplacePaired(s5, {"<b>"}, {"</b>"}, "bold")
      s7 == ReplacePaired(s6, OpenI, {"</i>"}, "italic")
      s8 == ReplacePaired(s7, {"<em>"}, {"</em>"}, "italic")
      s9 == ReplacePaired(s8, {"<a href>"}, {"</a>"}, "a")
      s10 == Without(s9, {"<img>"})
      s11 == ReplacePaired(ReplacePaired(s10, {"<script>"}, {"</script>"}, "drop"),
                           {"<style>"}, {"</style>"}, "drop")
      s12 == Without(s11, Tags)
  IN  Trim(CollapseNewlines(DropBlanksBeforeNewline(s12)))

\* ------------------------------------------------------------- chunker
\* String.prototype.slice on a string of length len: the resolved bounds
SliceFrom(len, a) == IF a < 0 THEN (IF len + a < 0 THEN 0 ELSE len + a)
                     ELSE (IF a > len THEN len ELSE a)
Slice(len, a, b) ==
  LET f == SliceFrom(len, a)
      t == SliceFrom(len, b)
  IN  [from |-> f, to |-> IF t < f THEN f ELSE t]

RECURSIVE RestChunks(_, _)
RestChunks(i, blen) ==
  IF i < blen
  THEN <<[hdr |-> FALSE] @@ Slice(blen, i, i + SliceStep)>> \o RestChunks(i + SliceStep, blen)
  ELSE <<>>

\* a chunk is [hdr, from, to]: the header (with its blank line) when hdr,
\* followed by body.slice(from, to)
chunksWithHeader(headerLineLen, blen) ==
  LET hlen == headerLineLen + 2
      firstRoom == LIMIT - hlen
  IN  IF hlen + blen <= LIMIT
      THEN << [hdr |-> TRUE, from |-> 0, to |-> blen] >>
      ELSE << [hdr |-> TRUE] @@ Slice(blen, 0, firstRoom) >> \o RestChunks(firstRoom, blen)

ChunkLen(headerLineLen, ch) == (IF ch.hdr THEN headerLineLen + 2 ELSE 0) + (ch.to - ch.from)

\* ------------------------------------------------------------- publisher
\* the payload post() puts in the request: text of a chunk of the entry
\* `of`, or a bare URL; sup is suppressEmbeds (flags: 4)
TextMsg(link, ch) ==
  [kind |-> "text", of |-> link, hdr |-> ch.hdr, from |-> ch.from, to |-> ch.to,
   url |-> NullLink, sup |-> FALSE]
UrlMsg(link, url) ==
  [kind |-> "url", of |-> link, hdr |-> FALSE, from |-> 0, to |-> 0,
   url |-> url, sup |-> TRUE]

Body(item) == IF item.textLen = 0 THEN DefaultBodyLen ELSE item.textLen

\* mutant of Plan: the links go out before the body
PlanLinksFirst(item) ==
  LET parts == chunksWithHeader(HeaderLineLen, Body(item))
  IN  << [msg |-> UrlMsg(item.sourceLink, item.sourceLink), pace |-> PaceLink],
         [msg |-> UrlMsg(item.sourceLink, Landing), pace |-> PaceParts] >>
      \o [j \in 1..Len(parts) |->
            [msg |-> TextMsg(item.sourceLink, parts[j]),
             pace |-> IF j < Len(parts) THEN PaceParts ELSE 0]]

\* mutant of Plan: the landing link is not sent
PlanNoLanding(item) ==
  LET parts == chunksWithHeader(HeaderLineLen, Body(item))
  IN  [j \in 1..Len(parts) |->
         [msg |-> TextMsg(item.sourceLink, parts[j]), pace |-> PaceParts]]
      \o << [msg |-> UrlMsg(item.sourceLink, item.sourceLink), pace |-> 0] >>

\* the post() calls of one publishing cycle, in program order, each with
\* the sleep that follows it (0: none)
Plan(item) ==
  LET parts == chunksWithHeader(HeaderLineLen, Body(item))
  IN  [j \in 1..Len(parts) |->
         [msg |-> TextMsg(item.sourceLink, parts[j]), pace |-> PaceParts]]
      \o (IF item.sourceLink # EmptyLink
          THEN << [msg |-> UrlMsg(item.sourceLink, item.sourceLink), pace |-> PaceLink] >>
          ELSE << >>)
      \o << [msg |-> UrlMsg(item.sourceLink, Landing), pace |-> 0] >>

\* the body of a 429 answer: not JSON, or JSON whose retry_after is ra
\* microseconds (0: absent or zero)
NoBody == [json |-> FALSE, ra |-> 0]
Bodies429 == { NoBody, [json |-> TRUE, ra |-> 0], [json |-> TRUE, ra |-> 1200500] }

\* mutant of WaitMs: Math.floor in place of Math.ceil
WaitMsFloor(body) ==
  IF ~body.json THEN DefaultWait
  ELSE IF body.ra = 0 THEN 500
  ELSE body.ra \div 1000

\* wait = Math.ceil((data.retry_after || 0.5) * 1000), 800 when the body
\* does not parse
WaitMs(body) ==
  IF ~body.json THEN DefaultWait
  ELSE IF body.ra = 0 THEN 500
  ELSE (body.ra + 999) \div 1000

\* mutant of RetryAllowed: a 429 does not use up an attempt
RetryAlways(i) == TRUE

\* the loop condition of post() after i++
RetryAllowed(i) == i < attempts

\* mutant of IsNew: the marker is not compared
IsNewIgnoresMarker(sourceLink, marker) == sourceLink # EmptyLink

\* the dedup gate
IsNew(sourceLink, marker) == sourceLink # EmptyLink /\ sourceLink # marker

PlanOf == [it \in Items |-> Plan(it)]

\* ------------------------------------------------------------- state
VARIABLES
  phase,      \* "down", "startup" (awaiting processOnce("startup")), "polling", "exited"
  force,      \* FORCE_POST_ON_BOOT
  lastLink,   \* the marker
  cyc,        \* per activation of processOnce: its position and locals
  faults,     \* non-ok answers of the channel API in this run
  forced,     \* history: a cycle of this run passed the gate on the flag alone
  published,  \* history: links whose header chunk the channel accepted
  exitStatus, \* the status process.exit was called with (NoStatus: not called)
  fn,         \* a helper function under test: its input, its progress, its result
  api         \* the JSON-API variant of the bot (src/unnamed/part_000): its whole state

\* the function harness and the JSON-API variant; the actions of the RSS
\* variant never touch them
harness == <<fn, api>>
vars == <<phase, force, lastLink, cyc, faults, forced, published, exitStatus, fn, api>>

NoStatus == -1
NoCall == [op |-> "none"]

\* ---- the JSON-API variant: newsitems[0] of a feed answer is
\* [gid, lang (the source it came from), len (contents.trim().length, 0 when
\* contents is absent), body (length of transformSteamToDiscord(contents))]
NoGid == "null"
NoNews == [gid |-> NoGid, lang |-> "none", len |-> 0, body |-> 0]
\* an activation of poll(): first is what the Finnish source answered, asked
\* the sources queried so far, calls the payloads post() was called with
ApiIdle == [pc |-> "idle", first |-> NoNews, item |-> NoNews, usedLang |-> "finnish",
            asked |-> <<>>, k |-> 0, calls |-> <<>>]
ApiDown == [phase |-> "down", lastGid |-> NoGid, cyc |-> [c \in Cycles |-> ApiIdle]]

\* pc: "idle", "rss" (RSS fetch pending), "req" (request of post() pending),
\*     "back" (sleeping after a 429), "pace" (sleeping after post() returned)
\* k: index of the current post() call, att: i of its loop, slp: duration of
\* the pending sleep, lim: body of the 429 being waited for, calls: the
\* payloads post() was called with, res: the last answer to the current call
Idle == [pc |-> "idle", item |-> NoItem, isNew |-> FALSE, k |-> 0, att |-> 0,
         slp |-> 0, lim |-> NoBody, calls |-> <<>>, res |-> "none"]
Fetching == [Idle EXCEPT !.pc = "rss"]

Init ==
  /\ phase = "down"
  /\ force = FALSE
  /\ lastLink = NullLink
  /\ cyc = [c \in Cycles |-> Idle]
  /\ faults = 0
  /\ forced = FALSE
  /\ published = {}
  /\ exitStatus = NoStatus
  /\ fn = NoCall
  /\ api = ApiDown

Active(c) == cyc[c].pc \in {"req", "back", "pace"}
PlanLen(c) == Len(PlanOf[cyc[c].item])
Step(c) == PlanOf[cyc[c].item][cyc[c].k]

\* post(content, opts) is entered: the request goes out
CallPost(r, j) ==
  [r EXCEPT !.pc = "req", !.k = j, !.att = 0, !.slp = 0, !.lim = NoBody,
            !.res = "none", !.calls = Append(r.calls, PlanOf[r.item][j].msg)]

\* processOnce returns (normally or through its catch); the startup
\* activation is awaited by the module body, which then sets the interval
Return(c) ==
  /\ cyc' = [cyc EXCEPT ![c] = Idle]
  /\ phase' = IF phase = "startup" THEN "polling" ELSE phase

\* mutant of Start: the configuration is not checked
StartUnchecked(token, channel, f) ==
  /\ phase = "down"
  /\ phase' = "startup"
  /\ force' = f
  /\ cyc' = [cyc EXCEPT ![1] = Fetching]
  /\ UNCHANGED <<lastLink, faults, forced, published, exitStatus, harness>>

\* ---- startup: the configuration is read and checked, processOnce("startup")
Start(token, channel, f) ==
  /\ phase = "down"
  /\ IF token /\ channel
     THEN /\ phase' = "startup"
          /\ force' = f
          /\ cyc' = [cyc EXCEPT ![1] = Fetching]
          /\ UNCHANGED exitStatus
     ELSE /\ phase' = "exited"
          /\ exitStatus' = 1
          /\ UNCHANGED <<force, cyc>>
  /\ UNCHANGED <<lastLink, faults, forced, published, harness>>

\* the process is stopped (by exit, a crash or a redeploy): everything it
\* holds in memory is gone, what the channel received is not
Kill ==
  /\ phase # "down"
  /\ phase' = "down"
  /\ force' = FALSE
  /\ lastLink' = NullLink
  /\ cyc' = [c \in Cycles |-> Idle]
  /\ faults' = 0
  /\ forced' = FALSE
  /\ exitStatus' = NoStatus
  /\ UNCHANGED <<published, harness>>

\* setInterval(poll, POLL_MS) fires: poll() enters processOnce
Tick ==
  /\ phase = "polling"
  /\ \E c \in Cycles :
       /\ cyc[c].pc = "idle"
       /\ \A d \in Cycles : d < c => cyc[d].pc # "idle"
       /\ cyc' = [cyc EXCEPT ![c] = Fetching]
  /\ UNCHANGED <<phase, force, lastLink, faults, forced, published, exitStatus, harness>>

\* mutant of RssFail: the marker is cleared when the feed cannot be read
RssFailForgets(c) ==
  /\ cyc[c].pc = "rss"
  /\ Return(c)
  /\ lastLink' = NullLink
  /\ UNCHANGED <<force, faults, forced, published, exitStatus, harness>>

\* ---- processOnce: the RSS fetch fails
RssFail(c) ==
  /\ cyc[c].pc = "rss"
  /\ Return(c)
  /\ UNCHANGED <<force, lastLink, faults, forced, published, exitStatus, harness>>

\* ---- processOnce: the RSS fetch answers with a feed
RssDone(c, feed) ==
  LET item == fetchLatestUpdateItem(feed)
      isNew == IsNew(item.sourceLink, lastLink)
  IN  /\ cyc[c].pc = "rss"
      /\ IF item # NoItem /\ (isNew \/ force)
         THEN /\ cyc' = [cyc EXCEPT ![c] =
                    CallPost([cyc[c] EXCEPT !.item = item, !.isNew = isNew], 1)]
              /\ forced' = (forced \/ ~isNew)
              /\ UNCHANGED phase
         ELSE /\ Return(c)
              /\ UNCHANGED forced
      /\ UNCHANGED <<force, lastLink, faults, published, exitStatus, harness>>

\* mutant of AfterPost: a cycle that passed the gate by force alone clears
\* the marker
AfterPostForgets(c, r) ==
  IF cyc[c].k < PlanLen(c)
  THEN /\ cyc' = [cyc EXCEPT ![c].pc = "pace", ![c].slp = Step(c).pace, ![c].res = r]
       /\ UNCHANGED <<phase, lastLink>>
  ELSE /\ lastLink' = IF cyc[c].isNew THEN cyc[c].item.sourceLink ELSE NullLink
       /\ Return(c)

\* ---- what processOnce does when post() has returned with last answer r
AfterPost(c, r) ==
  IF cyc[c].k < PlanLen(c)
  THEN /\ cyc' = [cyc EXCEPT ![c].pc = "pace", ![c].slp = Step(c).pace, ![c].res = r]
       /\ UNCHANGED <<phase, lastLink>>
  ELSE /\ lastLink' = IF cyc[c].item.sourceLink # EmptyLink
                      THEN cyc[c].item.sourceLink ELSE lastLink
       /\ Return(c)

\* mutant of OnHttpError: the error is thrown to processOnce's catch
OnHttpErrorThrows(c) == Return(c) /\ UNCHANGED lastLink

\* mutant of OnHttpError: `continue` in place of `break`
OnHttpErrorRetries(c) ==
  IF RetryAllowed(cyc[c].att + 1)
  THEN /\ cyc' = [cyc EXCEPT ![c].pc = "req", ![c].att = @ + 1, ![c].res = "err"]
       /\ UNCHANGED <<phase, lastLink>>
  ELSE AfterPost(c, "err")

\* ---- post(): an HTTP error other than 429 is logged and leaves the loop
OnHttpError(c) == AfterPost(c, "err")

\* ---- post(): the request is answered 2xx
PostOk(c) ==
  /\ cyc[c].pc = "req"
  /\ published' = IF Step(c).msg.hdr THEN published \cup {cyc[c].item.sourceLink}
                  ELSE published
  /\ AfterPost(c, "ok")
  /\ UNCHANGED <<force, faults, forced, exitStatus, harness>>

\* ---- post(): the request is answered 429
PostLimited(c, body) ==
  /\ cyc[c].pc = "req"
  /\ faults < MaxFaults
  /\ faults' = faults + 1
  /\ cyc' = [cyc EXCEPT ![c].pc = "back", ![c].slp = WaitMs(body),
                        ![c].lim = body, ![c].res = "lim"]
  /\ UNCHANGED <<phase, force, lastLink, forced, published, exitStatus, harness>>

\* ---- post(): the request is answered with another HTTP error
PostError(c) ==
  /\ cyc[c].pc = "req"
  /\ faults < MaxFaults
  /\ faults' = faults + 1
  /\ OnHttpError(c)
  /\ UNCHANGED <<force, forced, published, exitStatus, harness>>

\* mutant of PostThrow: nothing catches the rejection and the process dies
PostThrowUncaught(c) ==
  /\ cyc[c].pc = "req"
  /\ faults < MaxFaults
  /\ faults' = faults + 1
  /\ phase' = "exited"
  /\ exitStatus' = 1
  /\ cyc' = [d \in Cycles |-> Idle]
  /\ UNCHANGED <<force, lastLink, forced, published, harness>>

\* ---- post(): fetch rejects; the error leaves post and is caught by
\* processOnce
PostThrow(c) ==
  /\ cyc[c].pc = "req"
  /\ faults < MaxFaults
  /\ faults' = faults + 1
  /\ Return(c)
  /\ UNCHANGED <<force, lastLink, forced, published, exitStatus, harness>>

\* ---- post(): the back-off sleep is over
WakeBackoff(c) ==
  /\ cyc[c].pc = "back"
  /\ IF RetryAllowed(cyc[c].att + 1)
     THEN /\ cyc' = [cyc EXCEPT ![c].pc = "req", ![c].att = @ + 1, ![c].slp = 0,
                                ![c].lim = NoBody]
          /\ UNCHANGED <<phase, lastLink>>
     ELSE AfterPost(c, "lim")
  /\ UNCHANGED <<force, faults, forced, published, exitStatus, harness>>

\* ---- processOnce: the pacing sleep is over
WakePace(c) ==
  /\ cyc[c].pc = "pace"
  /\ cyc' = [cyc EXCEPT ![c] = CallPost(cyc[c], cyc[c].k + 1)]
  /\ UNCHANGED <<phase, force, lastLink, faults, forced, published, exitStatus, harness>>

Next ==
  \/ \E t \in BOOLEAN, ch \in BOOLEAN, f \in BOOLEAN : Start(t, ch, f)
  \/ Kill
  \/ Tick
  \/ \E c \in Cycles : RssFail(c)
  \/ \E c \in Cycles, feed \in Feeds : RssDone(c, feed)
  \/ \E c \in Cycles : PostOk(c)
  \/ \E c \in Cycles, body \in Bodies429 : PostLimited(c, body)
  \/ \E c \in Cycles : PostError(c)
  \/ \E c \in Cycles : PostThrow(c)
  \/ \E c \in Cycles : WakeBackoff(c)
  \/ \E c \in Cycles : WakePace(c)

Spec == Init /\ [][Next]_vars

\* ------------------------------------------------- helper functions
\* The helpers of the bot are pure functions.  To examine one on its own it
\* is called once on an input drawn from a bounded set, while the bot itself
\* is not started.

\* chunksWithHeader(headerLine, body): the lengths of the two arguments
HeaderLens == {0, HeaderLineLen, LIMIT - 3, LIMIT - 2, LIMIT - 1, LIMIT + 100}
BodyLens == {0, 1, DefaultBodyLen, SliceStep, SliceStep + 1,
             LIMIT - HeaderLineLen - 2, LIMIT - HeaderLineLen - 1,
             LIMIT - HeaderLineLen - 2 + SliceStep, LIMIT - HeaderLineLen - 1 + SliceStep,
             3 * LIMIT}
ChunkCall(h, b) ==
  [op |-> "chunks", headerLen |-> h, bodyLen |-> b, done |-> FALSE, out |-> <<>>]

CallChunks ==
  /\ fn.op = "chunks" /\ ~fn.done
  /\ fn' = [fn EXCEPT !.done = TRUE, !.out = chunksWithHeader(fn.headerLen, fn.bodyLen)]
  /\ UNCHANGED <<phase, force, lastLink, cyc, faults, forced, published, exitStatus, api>>

\* isLikelyCs2Patch({ link, title, description })
LinkShapes == {"updates", "app730", "post", "other"}
AcceptWords == {"patch", "release", "notes", "counter", "strike", "cs2"}
Texts == UNION { [1..n -> AcceptWords] : n \in 0..MaxWords }
AcceptCall(sh, t, d) ==
  [op |-> "accept", link |-> <<sh, "l">>, title |-> t, desc |-> d,
   done |-> FALSE, out |-> FALSE]

CallAccept ==
  /\ fn.op = "accept" /\ ~fn.done
  /\ fn' = [fn EXCEPT !.done = TRUE,
                      !.out = isLikelyCs2Patch([link |-> fn.link, title |-> fn.title,
                                                desc |-> fn.desc])]
  /\ UNCHANGED <<phase, force, lastLink, cyc, faults, forced, published, exitStatus, api>>

\* htmlToText(htmlRaw) on a single heading element: <h2>, its content, </h2>
FooBar == <<"<h2>", "F", "o", "o", " ", "B", "a", "r", "</h2>">>
HeadingTokens == {"o", "B", " ", "<b>", "</b>"}
HeadingContents == UNION { [1..n -> HeadingTokens] : n \in 0..MaxHeading }
\* ... and on any text of white space, line breaks and letters
TextTokens == {"o", " ", "\n", "\r", "<br>", "</p>", "&#10;"}
TextInputs == UNION { [1..n -> TextTokens] : n \in 0..MaxText }
NormalizeCall(h) == [op |-> "normalize", in |-> h, done |-> FALSE, out |-> <<>>]

CallNormalize ==
  /\ fn.op = "normalize" /\ ~fn.done
  /\ fn' = [fn EXCEPT !.done = TRUE, !.out = htmlToText(fn.in)]
  /\ UNCHANGED <<phase, force, lastLink, cyc, faults, forced, published, exitStatus, api>>

\* the selection loop of fetchLatestUpdateItem over the item blocks of a
\* feed: i entries have been examined
SelectFeeds == UNION { [1..n -> {EntryA, EntryA0, EntryB, EntryX}] : n \in 0..MaxFeed }
SelectCall(feed) == [op |-> "select", in |-> feed, i |-> 0, done |-> FALSE, out |-> NoItem]

\* mutant of SelectStep: no break, a later accepted entry replaces the selection
SelectStepNoBreak ==
  /\ fn.op = "select" /\ ~fn.done
  /\ IF fn.i = Len(fn.in)
     THEN fn' = [fn EXCEPT !.done = TRUE]
     ELSE LET e == fn.in[fn.i + 1]
          IN  fn' = [fn EXCEPT !.i = @ + 1,
                               !.out = IF isLikelyCs2Patch(e)
                                       THEN [sourceLink |-> e.link, textLen |-> e.textLen]
                                       ELSE @]
  /\ UNCHANGED <<phase, force, lastLink, cyc, faults, forced, published, exitStatus, api>>

\* one turn of `for (const it of itemBlocks)`, or the return after the loop
SelectStep ==
  /\ fn.op = "select" /\ ~fn.done
  /\ IF fn.i = Len(fn.in)
     THEN fn' = [fn EXCEPT !.done = TRUE, !.out = NoItem]
     ELSE LET e == fn.in[fn.i + 1]
          IN  IF isLikelyCs2Patch(e)
              THEN fn' = [fn EXCEPT !.done = TRUE, !.i = @ + 1,
                                    !.out = [sourceLink |-> e.link, textLen |-> e.textLen]]
              ELSE fn' = [fn EXCEPT !.i = @ + 1]
  /\ UNCHANGED <<phase, force, lastLink, cyc, faults, forced, published, exitStatus, api>>


FnInit ==
  /\ phase = "down"
  /\ force = FALSE
  /\ lastLink = NullLink
  /\ cyc = [c \in Cycles |-> Idle]
  /\ faults = 0
  /\ forced = FALSE
  /\ published = {}
  /\ exitStatus = NoStatus
  /\ api = ApiDown
  /\ \/ \E h \in HeaderLens, b \in BodyLens : fn = ChunkCall(h, b)
     \/ \E sh \in LinkShapes, t \in Texts, d \in Texts : fn = AcceptCall(sh, t, d)
     \/ \E t \in HeadingContents : fn = NormalizeCall(<<"<h2>">> \o t \o <<"</h2>">>)
     \/ fn = NormalizeCall(FooBar)
     \/ \E t \in TextInputs : fn = NormalizeCall(t)
     \/ \E feed \in SelectFeeds : fn = SelectCall(feed)

FnNext ==
  \/ CallChunks
  \/ CallAccept
  \/ CallNormalize
  \/ SelectStep

FnSpec == FnInit /\ [][FnNext]_vars

\* ------------------------------------------------- the JSON-API variant
\* src/unnamed/part_000: poll() asks the Steam news API for the latest item,
\* in Finnish first and in English when the Finnish item is missing or
\* nearly empty; post() makes one request and never retries.
rss == <<phase, force, lastLink, cyc, faults, forced, published, exitStatus>>

ContentSizes == { [len |-> 0, body |-> 0], [len |-> 19, body |-> 19],
                  [len |-> 20, body |-> 12], [len |-> 2500, body |-> 2400] }
Gids == {"g1", "g2"}
\* what fetchNews(lang) may return
NewsOf(lang) ==
  {NoNews} \cup { [gid |-> g, lang |-> lang, len |-> z.len, body |-> z.body] :
                    g \in Gids, z \in ContentSizes }

RECURSIVE ApiRestChunks(_, _)
ApiRestChunks(i, blen) ==
  IF i < blen
  THEN <<[hdr |-> FALSE] @@ Slice(blen, i, i + ApiSliceStep)>>
       \o ApiRestChunks(i + ApiSliceStep, blen)
  ELSE <<>>

apiChunksWithHeader(headerLineLen, blen) ==
  LET hlen == headerLineLen + 2
      firstRoom == LIMIT - hlen
  IN  IF hlen + blen <= LIMIT
      THEN << [hdr |-> TRUE, from |-> 0, to |-> blen] >>
      ELSE << [hdr |-> TRUE] @@ Slice(blen, 0, firstRoom) >> \o ApiRestChunks(firstRoom, blen)

\* the post() calls of a publishing poll: the chunks of the item's body, the
\* first under the header, which carries " [EN]" after a fallback
ApiPlan(item, usedLang) ==
  LET parts == apiChunksWithHeader(
                 HeaderLineLen + (IF usedLang = "finnish" THEN 0 ELSE EnTagLen), item.body)
  IN  [j \in 1..Len(parts) |->
         [gid |-> item.gid, src |-> item.lang, tag |-> usedLang,
          hdr |-> parts[j].hdr, from |-> parts[j].from, to |-> parts[j].to]]

\* mutant of NeedsFallback: the English source is always asked
NeedsFallbackAlways(news) == TRUE

\* !item || !item.contents || item.contents.trim().length < 20
NeedsFallback(news) == news = NoNews \/ news.len < MinContents

ApiActive(c) == api.cyc[c].pc = "req"

\* poll() returns (normally or through its catch); the startup call is
\* awaited by the module body, which then sets the interval
ApiReturn(c) ==
  [api EXCEPT !.cyc[c] = ApiIdle,
              !.phase = IF api.phase = "startup" THEN "polling" ELSE api.phase]

\* ---- startup: the settings are checked, the boot message is posted
ApiStart(token, channel) ==
  /\ api.phase = "down"
  /\ api' = [api EXCEPT !.phase = IF token /\ channel THEN "boot" ELSE "exited"]
  /\ UNCHANGED <<rss, fn>>

\* ---- the boot message was answered (with any status): poll() is called
ApiBootDone ==
  /\ api.phase = "boot"
  /\ api' = [api EXCEPT !.phase = "startup",
                        !.cyc[1] = [ApiIdle EXCEPT !.pc = "fi", !.asked = <<"finnish">>]]
  /\ UNCHANGED <<rss, fn>>

\* ---- the request of the boot message rejects: nothing catches it at the
\* top level and the process dies
ApiBootThrow ==
  /\ api.phase = "boot"
  /\ api' = [api EXCEPT !.phase = "exited"]
  /\ UNCHANGED <<rss, fn>>

\* the process is stopped and may be started again
ApiKill ==
  /\ api.phase # "down"
  /\ api' = ApiDown
  /\ UNCHANGED <<rss, fn>>

\* setInterval(poll, POLL_MS) fires
ApiTick ==
  /\ api.phase = "polling"
  /\ \E c \in Cycles :
       /\ api.cyc[c].pc = "idle"
       /\ \A d \in Cycles : d < c => api.cyc[d].pc # "idle"
       /\ api' = [api EXCEPT !.cyc[c] = [ApiIdle EXCEPT !.pc = "fi", !.asked = <<"finnish">>]]
  /\ UNCHANGED <<rss, fn>>

\* ---- fetchNews throws (the request rejects, a non-ok status, a body that
\* is not JSON): caught by poll
ApiFetchFail(c) ==
  /\ api.cyc[c].pc \in {"fi", "en"}
  /\ api' = ApiReturn(c)
  /\ UNCHANGED <<rss, fn>>

\* if (!item) return; if (item.gid !== lastGid) { lastGid = item.gid; ...
\* the first chunk is handed to post()
ApiGate(c, item, usedLang) ==
  IF item # NoNews /\ item.gid # api.lastGid
  THEN [api EXCEPT !.lastGid = item.gid,
                   !.cyc[c].pc = "req", !.cyc[c].item = item,
                   !.cyc[c].usedLang = usedLang, !.cyc[c].k = 1,
                   !.cyc[c].calls = <<ApiPlan(item, usedLang)[1]>>]
  ELSE ApiReturn(c)

\* ---- fetchNews("finnish") returns
ApiFinnishDone(c, news) ==
  /\ api.cyc[c].pc = "fi"
  /\ IF NeedsFallback(news)
     THEN api' = [api EXCEPT !.cyc[c].pc = "en", !.cyc[c].first = news,
                             !.cyc[c].asked = Append(@, "english")]
     ELSE api' = ApiGate(c, news, "finnish")
  /\ UNCHANGED <<rss, fn>>

\* ---- fetchNews("english") returns
ApiEnglishDone(c, news) ==
  /\ api.cyc[c].pc = "en"
  /\ api' = ApiGate(c, news, "english")
  /\ UNCHANGED <<rss, fn>>

\* ---- post(): the request is answered (a non-ok status is only logged);
\* the loop posts the next chunk or poll returns
ApiPostDone(c) ==
  /\ api.cyc[c].pc = "req"
  /\ LET plan == ApiPlan(api.cyc[c].item, api.cyc[c].usedLang)
     IN  IF api.cyc[c].k < Len(plan)
         THEN api' = [api EXCEPT !.cyc[c].k = @ + 1,
                                 !.cyc[c].calls = Append(@, plan[api.cyc[c].k + 1])]
         ELSE api' = ApiReturn(c)
  /\ UNCHANGED <<rss, fn>>

\* ---- post(): the request rejects; caught by poll
ApiPostThrow(c) ==
  /\ api.cyc[c].pc = "req"
  /\ api' = ApiReturn(c)
  /\ UNCHANGED <<rss, fn>>

ApiInit == Init

ApiNext ==
  \/ \E t \in BOOLEAN, ch \in BOOLEAN : ApiStart(t, ch)
  \/ ApiBootDone
  \/ ApiBootThrow
  \/ ApiKill
  \/ ApiTick
  \/ \E c \in Cycles : ApiFetchFail(c)
  \/ \E c \in Cycles, news \in NewsOf("finnish") : ApiFinnishDone(c, news)
  \/ \E c \in Cycles, news \in NewsOf("english") : ApiEnglishDone(c, news)
  \/ \E c \in Cycles : ApiPostDone(c)
  \/ \E c \in Cycles : ApiPostThrow(c)

ApiSpec == ApiInit /\ [][ApiNext]_vars

\* ================================================================ claims
ItemA == [sourceLink |-> LinkA, textLen |-> 12]
SourceLink(c) == cyc[c].item.sourceLink
\* processOnce of activation c returns in this step (the process lives on)
Ends(c) == cyc[c].pc # "idle" /\ cyc'[c].pc = "idle" /\ phase' # "down"

\* ---------------------------------------------------------------- C1
\* C1, as stated: each selected announcement is published exactly once.  The
\* channel never accepts the header chunk of a link whose header chunk it
\* already holds, and when a cycle that selected a link as new ends with the
\* marker set to that link, the channel holds the link's header chunk.
C1_ExactlyOnce ==
  [][\A c \in Cycles :
       /\ (PostOk(c) /\ Step(c).msg.hdr) => SourceLink(c) \notin published
       /\ (Active(c) /\ cyc[c].isNew /\ Ends(c) /\ lastLink' = SourceLink(c))
            => SourceLink(c) \in published'
    ]_vars

\* C1, amended: within one process run a cycle starts publishing a selected
\* announcement only if, at its dedup check, the link differs from the
\* in-memory marker or the force-post flag is set.
C1_PublishOnlyPastGate ==
  [][\A c \in Cycles :
       (cyc[c].pc = "rss" /\ cyc'[c].pc = "req")
         => (cyc'[c].item.sourceLink # lastLink \/ force)
    ]_vars

\* a second announcement is being published after the first one set the marker
C1_Witness ==
  \E c \in Cycles :
    /\ cyc[c].pc = "req" /\ cyc[c].k = 1
    /\ SourceLink(c) = LinkB /\ lastLink = LinkA
    /\ ~force /\ LinkA \in published

\* ---------------------------------------------------------------- C2
\* C2: a cycle whose dedup check saw marker = L for the link L it selected
\* (isNew false) makes no send call at all, so every activation that is
\* sending found its link new.
C2_SecondRunSilent ==
  \A c \in Cycles : Active(c) => cyc[c].isNew

\* ---------------------------------------------------------------- C3
\* C3: at most one pipeline cycle is in flight at any time, so no two
\* cycles both found the same link new and both publish it.
C3_SingleFlight ==
  /\ Cardinality({c \in Cycles : cyc[c].pc # "idle"}) <= 1
  /\ \A c, d \in Cycles :
       (c # d /\ Active(c) /\ Active(d) /\ cyc[c].isNew /\ cyc[d].isNew)
         => SourceLink(c) # SourceLink(d)

\* ---------------------------------------------------------------- C4
\* C4: with the force-post flag set the dedup gate is bypassed at most once
\* per process invocation: a cycle passes the gate with a link equal to the
\* marker only if no earlier cycle of this run did.
C4_ForceOnce ==
  [][\A c \in Cycles :
       (cyc[c].pc = "rss" /\ cyc'[c].pc = "req" /\ ~cyc'[c].isNew) => ~forced
    ]_vars

\* ---------------------------------------------------------------- C5
\* C5: whenever a cycle that selected a candidate as new ends, the marker
\* equals that candidate's link, whatever happened during publishing.
C5_MarkerAdvances ==
  [][\A c \in Cycles :
       (Active(c) /\ cyc[c].isNew /\ Ends(c)) => lastLink' = SourceLink(c)
    ]_vars

\* ---------------------------------------------------------------- C6
\* C6, as stated: when a send is answered with a non-429 HTTP error the cycle
\* ends there, with the marker set to the selected candidate.
C6_FailureEndsCycle ==
  [][\A c \in Cycles :
       PostError(c) => (cyc'[c].pc = "idle" /\ lastLink' = SourceLink(c))
    ]_vars

\* C6, amended: a send answered with a non-429 HTTP error is dropped and the
\* cycle goes on: after the pacing sleep the next message of the cycle is
\* sent, and when the failed send was the last one the cycle ends with the
\* marker set to the selected candidate.
C6_FailureSkipsOneMessage ==
  [][\A c \in Cycles :
       /\ PostError(c) =>
            IF cyc[c].k < PlanLen(c)
            THEN /\ cyc'[c].pc = "pace" /\ cyc'[c].res = "err"
                 /\ cyc'[c].k = cyc[c].k /\ cyc'[c].calls = cyc[c].calls
                 /\ lastLink' = lastLink
            ELSE cyc'[c].pc = "idle" /\ lastLink' = SourceLink(c)
       /\ (cyc[c].pc = "pace" /\ cyc[c].res = "err" /\ cyc'[c] # cyc[c] /\ phase' # "down")
            => /\ cyc'[c].pc = "req" /\ cyc'[c].att = 0
               /\ cyc'[c].k = cyc[c].k + 1
               /\ cyc'[c].calls = Append(cyc[c].calls, PlanOf[cyc[c].item][cyc[c].k + 1].msg)
    ]_vars

\* a body chunk was answered with an HTTP error and the activation lives on
C6_Witness ==
  \E c \in Cycles :
    /\ cyc[c].pc = "pace" /\ cyc[c].res = "err"
    /\ Step(c).msg.kind = "text"

\* ---------------------------------------------------------------- C7
\* C7, as stated: after the wait that follows a 429 the same message is sent
\* again, however many attempts were made: rate limiting alone never makes
\* post() give a message up.
C7_RetryUntilAnswered ==
  [][\A c \in Cycles :
       WakeBackoff(c) => (cyc'[c].pc = "req" /\ cyc'[c].k = cyc[c].k)
    ]_vars

\* C7, amended: a message is requested at most `attempts` (3) times.  After
\* the wait that follows a 429 the message is sent again only if fewer than 3
\* requests were made for it; after the third 429 post() returns without an
\* error and the cycle goes on (or ends, setting the marker) as after any
\* send.  A send answered with another HTTP error is never sent again.
C7_RetryBounded ==
  /\ [](\A c \in Cycles : cyc[c].att < attempts)
  /\ [][\A c \in Cycles :
          /\ WakeBackoff(c) =>
               IF cyc[c].att + 1 < attempts
               THEN /\ cyc'[c].pc = "req" /\ cyc'[c].k = cyc[c].k
                    /\ cyc'[c].att = cyc[c].att + 1
                    /\ cyc'[c].calls = cyc[c].calls
               ELSE IF cyc[c].k < PlanLen(c)
               THEN /\ cyc'[c].pc = "pace" /\ cyc'[c].res = "lim"
                    /\ cyc'[c].k = cyc[c].k
               ELSE cyc'[c].pc = "idle" /\ lastLink' = SourceLink(c)
          /\ PostError(c) => cyc'[c].pc # "req"
       ]_vars

\* a message was given up after three 429 answers
C7_Witness ==
  \E c \in Cycles :
    cyc[c].pc = "pace" /\ cyc[c].res = "lim" /\ cyc[c].att = attempts - 1

\* ---------------------------------------------------------------- C8
\* C8: after a 429 with retry-after d the activation sleeps at least d (and
\* never less than 1 ms) before it sends again; the step that ends the
\* sleep sends the same message once more and calls post() for no other
\* message; and when that attempt is answered 2xx the message is not sent
\* again: post() returns.
C8_RetryAfterWait ==
  /\ [](\A c \in Cycles :
          cyc[c].pc = "back" =>
            /\ cyc[c].slp >= 1
            /\ cyc[c].lim.json => cyc[c].slp * 1000 >= cyc[c].lim.ra)
  /\ [][\A c \in Cycles :
          /\ (cyc[c].pc = "back" /\ cyc'[c].pc = "req") =>
               /\ cyc'[c].k = cyc[c].k
               /\ cyc'[c].att = cyc[c].att + 1
               /\ cyc'[c].calls = cyc[c].calls
          /\ (PostOk(c) /\ cyc[c].att >= 1) =>
               /\ cyc'[c].pc \in {"pace", "idle"}
               /\ cyc'[c].pc = "pace" =>
                    /\ cyc'[c].res = "ok" /\ cyc'[c].k = cyc[c].k
                    /\ cyc'[c].calls = cyc[c].calls
       ]_vars

\* the retry that followed one 429 was answered 2xx
C8_Witness ==
  \E c \in Cycles :
    cyc[c].pc = "pace" /\ cyc[c].res = "ok" /\ cyc[c].att = 1

\* ---------------------------------------------------------------- C9
\* C9: the post() calls of a publishing cycle are, in this order, the body
\* chunks in chunk order (the first with the header, each starting where
\* the one before ended), then, after the chunk that ends the body, the
\* entry's link and the landing link; a call is made only when the one
\* before has returned (calls has one entry per position k), URL messages
\* carry suppressEmbeds and body chunks do not.
C9_SendOrder ==
  \A c \in Cycles :
    Active(c) =>
      LET s == cyc[c].calls
      IN  /\ Len(s) = cyc[c].k
          /\ s[1].kind = "text" /\ s[1].hdr /\ s[1].from = 0
          /\ \A i \in 1..Len(s) : s[i].sup = (s[i].kind = "url")
          /\ \A i \in 1..(Len(s) - 1) :
               /\ s[i].kind = "url" => s[i + 1].kind = "url"
               /\ (s[i].kind = "text" /\ s[i + 1].kind = "text")
                    => (s[i + 1].from = s[i].to /\ ~s[i + 1].hdr)
               /\ (s[i].kind = "text" /\ s[i + 1].kind = "url")
                    => s[i].to = Body(cyc[c].item)
               /\ (s[i].kind = "url" /\ s[i + 1].kind = "url")
                    => (s[i].url = SourceLink(c) /\ s[i + 1].url = Landing)

\* two body chunks and both links have been handed to post()
C9_Witness ==
  \E c \in Cycles :
    SourceLink(c) = LinkB /\ Len(cyc[c].calls) = 4 /\ cyc[c].pc = "req"

\* ---------------------------------------------------------------- C10
\* C10, as stated: for the single accepted entry with a one-segment body, a
\* cycle that started with an empty marker makes no third send.
C10_TwoSends ==
  \A c \in Cycles :
    (Active(c) /\ cyc[c].item = ItemA /\ cyc[c].isNew /\ lastLink = NullLink)
      => Len(cyc[c].calls) <= 2

ExpectedA ==
  << [kind |-> "text", of |-> LinkA, hdr |-> TRUE, from |-> 0, to |-> 12,
      url |-> NullLink, sup |-> FALSE],
     [kind |-> "url", of |-> LinkA, hdr |-> FALSE, from |-> 0, to |-> 0,
      url |-> LinkA, sup |-> TRUE],
     [kind |-> "url", of |-> LinkA, hdr |-> FALSE, from |-> 0, to |-> 0,
      url |-> Landing, sup |-> TRUE] >>

\* C10, amended: such a cycle makes three sends, never more, in this order:
\* the header+body segment, a link-only message with preview suppressed
\* that holds the entry's link, and a link-only message with preview
\* suppressed that holds the fixed updates-landing URL; a cycle that ends
\* without a send having raised a transport error has made all three.
C10_ThreeSends ==
  /\ [](\A c \in Cycles :
          (Active(c) /\ cyc[c].item = ItemA) =>
            /\ Len(cyc[c].calls) <= 3
            /\ cyc[c].calls = SubSeq(ExpectedA, 1, Len(cyc[c].calls)))
  /\ [][\A c \in Cycles :
          (Active(c) /\ cyc[c].item = ItemA /\ Ends(c) /\ ~PostThrow(c))
            => cyc[c].calls = ExpectedA
       ]_vars

\* the third send of such a cycle is on its way
C10_Witness ==
  \E c \in Cycles :
    /\ cyc[c].item = ItemA /\ cyc[c].isNew /\ lastLink = NullLink
    /\ cyc[c].pc = "req" /\ cyc[c].calls = ExpectedA

\* ---------------------------------------------------------------- C11
\* C11: for every header and every body, with no restriction on the
\* header's length, every segment chunksWithHeader returns has length at
\* most LIMIT.
C11_SegmentsWithinLimit ==
  (fn.op = "chunks" /\ fn.done) =>
    \A i \in 1..Len(fn.out) : ChunkLen(fn.headerLen, fn.out[i]) <= LIMIT

\* ---------------------------------------------------------------- C12
\* the slices body.slice(from, to) of the segments, taken in order from
\* position pos on, are the rest of the body: each starts where the one
\* before ended and the last ends where the body ends
RECURSIVE Tiles(_, _, _)
Tiles(chs, pos, blen) ==
  IF chs = <<>> THEN pos = blen
  ELSE /\ Head(chs).to >= Head(chs).from
       /\ (Head(chs).to > Head(chs).from => Head(chs).from = pos)
       /\ Tiles(Tail(chs), IF Head(chs).to > Head(chs).from THEN Head(chs).to ELSE pos, blen)

\* C12: for every header and every body, the first segment is the header,
\* its separator and a slice of the body, no other segment holds the header,
\* and the segments' slices concatenated in order are exactly the body: no
\* character lost, duplicated or reordered.
C12_Reconstructs ==
  (fn.op = "chunks" /\ fn.done) =>
    /\ Len(fn.out) >= 1 /\ fn.out[1].hdr
    /\ \A i \in 2..Len(fn.out) : ~fn.out[i].hdr
    /\ Tiles(fn.out, 0, fn.bodyLen)

\* ---------------------------------------------------------------- C13
\* C13: when the normalized body of a newly selected candidate is empty or
\* shorter than the minimum usable length, the cycle sends no message for it
\* (processOnce returns at the dedup check) and the marker is set to the
\* candidate's link.
C13_ShortBodySkipped ==
  [][\A c \in Cycles, feed \in Feeds :
       LET item == fetchLatestUpdateItem(feed)
       IN  (RssDone(c, feed) /\ item # NoItem /\ item.textLen < MinUsableLen
              /\ IsNew(item.sourceLink, lastLink))
             => (cyc'[c].pc = "idle" /\ lastLink' = item.sourceLink)
    ]_vars

\* ---------------------------------------------------------------- C14
\* C14: an error raised in a cycle (the feed request fails or answers with
\* an error status, a send raises a transport error) ends only that cycle:
\* its activation returns to idle, every other activation is left as it was,
\* the process keeps running with its timer installed (also when the failed
\* cycle was the startup cycle), the marker is not touched, and the timer can
\* start the next cycle, which starts from the initial locals.
C14_ErrorEndsOnlyCycle ==
  /\ [][\A c \in Cycles :
          /\ (RssFail(c) \/ PostThrow(c)) =>
               /\ cyc'[c] = Idle
               /\ \A d \in Cycles \ {c} : cyc'[d] = cyc[d]
               /\ phase' = "polling" /\ exitStatus' = NoStatus
               /\ lastLink' = lastLink
          /\ (cyc[c].pc = "idle" /\ cyc'[c].pc # "idle") => cyc'[c] = Fetching
       ]_vars
  /\ []((phase = "polling" /\ \E c \in Cycles : cyc[c].pc = "idle") => ENABLED Tick)

\* a cycle of this run ended in a transport error without setting the marker
\* (every other way to end a publishing cycle sets it), and the next cycle is
\* sending its first message
C14_Witness ==
  \E c \in Cycles :
    /\ phase = "polling" /\ faults > 0 /\ lastLink = NullLink
    /\ cyc[c].pc = "req" /\ cyc[c].k = 1 /\ cyc[c].att = 0
    /\ \A d \in Cycles \ {c} : cyc[d].pc = "idle"

\* ---------------------------------------------------------------- C16
\* C16: when BOT_TOKEN or CHANNEL_ID is absent at startup the process exits
\* with status 1 in the same step: no feed fetch was started, no send was
\* made and no cycle was scheduled, and none is afterwards.
C16_FailFast ==
  /\ [][\A t \in BOOLEAN, ch \in BOOLEAN, f \in BOOLEAN :
          (Start(t, ch, f) /\ ~(t /\ ch)) =>
            /\ phase' = "exited" /\ exitStatus' = 1
            /\ cyc' = [c \in Cycles |-> Idle]
            /\ published' = published
       ]_vars
  /\ [](phase = "exited" =>
          /\ exitStatus # NoStatus /\ exitStatus # 0
          /\ \A c \in Cycles : cyc[c] = Idle
          /\ ~ENABLED Tick)

\* the process has exited on a missing setting
C16_Witness == phase = "exited" /\ exitStatus = 1 /\ lastLink = NullLink

\* ---------------------------------------------------------------- C15
\* C15: a candidate is accepted exactly when its link is the product's
\* dedicated update path and its title or its description has an update
\* keyword, or its link is a generic news-post path and its title or its
\* description has an update keyword and its title or its description names
\* the product; every other candidate is rejected.
C15_AcceptedExactlyWhen ==
  (fn.op = "accept" /\ fn.done) =>
    LET kw == Contains(fn.title, UpdateKeywords) \/ Contains(fn.desc, UpdateKeywords)
        names == Contains(fn.title, ProductNames) \/ Contains(fn.desc, ProductNames)
    IN  fn.out = \/ (fn.link[1] \in {"updates", "app730"} /\ kw)
                 \/ (fn.link[1] = "post" /\ kw /\ names)

\* ---------------------------------------------------------------- C17
\* the input is a single heading element whose content is text and inline
\* formatting tags
LoneHeading ==
  /\ fn.op = "normalize" /\ Len(fn.in) >= 2
  /\ fn.in[1] = "<h2>" /\ fn.in[Len(fn.in)] = "</h2>"
  /\ \A i \in 2..(Len(fn.in) - 1) : fn.in[i] \in HeadingTokens \cup {"F", "a", "r"}
\* the content of the heading element that is the whole input
HeadingContent == SubSeq(fn.in, 2, Len(fn.in) - 1)
\* its text: nested tags removed, surrounding white space removed, upper case
HeadingClean == toUpperCase(Trim(SelectSeq(HeadingContent, LAMBDA t : t \notin Tags)))

\* C17, as stated: htmlToText of a single heading element with text T is a
\* newline, then "[ ", the upper-case text of T with nested markup removed,
\* " ]", then a newline.
C17_HeadingWithNewlines ==
  (LoneHeading /\ fn.done /\ HeadingClean # <<>>) =>
    fn.out = <<"\n", "[", " ">> \o HeadingClean \o <<" ", "]", "\n">>

\* C17, amended: htmlToText of a single heading element whose content is
\* text and inline formatting tags is "[ ", the upper-case text of the content
\* with the nested tags and the surrounding white space removed, " ]", with no
\* newline before or after it (the final trim removes the newlines the heading
\* rule puts around the bracket); it is the empty string when the content has
\* no text.
C17_HeadingBracketed ==
  (LoneHeading /\ fn.done) =>
    fn.out = IF HeadingClean = <<>> THEN <<>>
             ELSE <<"[", " ">> \o HeadingClean \o <<" ", "]">>

\* <h2>Foo Bar</h2> has been converted
C17_Witness ==
  /\ fn.op = "normalize" /\ fn.done /\ fn.in = FooBar
  /\ fn.out = <<"[", " ", "F", "O", "O", " ", "B", "A", "R", " ", "]">>

\* ---------------------------------------------------------------- C18
\* C18: a send answered with an HTTP error other than 429 is given up at
\* once, whatever number of attempts is left: post() returns without another
\* request (the cycle is pacing or has ended), and when the activation sends
\* again it is the next message of the cycle, never the failed one.
C18_NoRetryAfterHttpError ==
  [][\A c \in Cycles :
       /\ PostError(c) =>
            /\ cyc'[c].pc \in {"pace", "idle"}
            /\ cyc'[c].pc = "pace" => (cyc'[c].res = "err" /\ cyc'[c].att = cyc[c].att)
       /\ (cyc[c].res = "err" /\ cyc[c].pc # "idle" /\ cyc'[c].pc = "req")
            => cyc'[c].k = cyc[c].k + 1
    ]_vars

\* a link message was answered with an HTTP error on its second attempt, one
\* attempt left, and was not sent again
C18_Witness ==
  \E c \in Cycles :
    /\ cyc[c].pc = "pace" /\ cyc[c].res = "err" /\ cyc[c].att = 1
    /\ Step(c).msg.kind = "url"

\* ---------------------------------------------------------------- C19
\* C19: a cycle in which no candidate is selected, because the feed request
\* failed or because no entry of the feed passed isLikelyCs2Patch, has sent
\* no message and ends leaving the marker (and what the channel holds) as it
\* was; the process goes on polling, and an activation that starts then
\* starts with a feed request.
C19_NothingSelected ==
  [][\A c \in Cycles :
       /\ (\/ RssFail(c)
           \/ \E feed \in Feeds :
                /\ RssDone(c, feed)
                /\ \A i \in 1..Len(feed) : ~isLikelyCs2Patch(feed[i]))
            => /\ cyc[c].calls = <<>> /\ cyc'[c] = Idle
               /\ lastLink' = lastLink /\ published' = published
               /\ phase' = "polling"
       /\ (cyc[c].pc = "idle" /\ cyc'[c].pc # "idle") => cyc'[c].pc = "rss"
    ]_vars

\* the startup cycle selected nothing (a cycle that selects with an empty
\* marker sends, which leaves a message in the channel or a fault), and a
\* timer cycle is fetching the feed again
C19_Witness ==
  /\ phase = "polling" /\ faults = 0 /\ published = {} /\ lastLink = NullLink
  /\ \E c \in Cycles : cyc[c].pc = "rss"

\* ---------------------------------------------------------------- C20
\* C20: the selection loop takes the entries in document order and stops at
\* the first one isLikelyCs2Patch accepts: when it has finished with a
\* selection, the selection is the last entry it examined, that entry is
\* accepted and no entry before it is; when it has finished without one, it
\* has examined every entry and none is accepted.  The result is the one
\* the cycle gets from fetchLatestUpdateItem.
C20_FirstAccepted ==
  (fn.op = "select" /\ fn.done) =>
    /\ fn.out = fetchLatestUpdateItem(fn.in)
    /\ \A j \in 1..(fn.i - 1) : ~isLikelyCs2Patch(fn.in[j])
    /\ IF fn.out = NoItem
       THEN fn.i = Len(fn.in) /\ (fn.i > 0 => ~isLikelyCs2Patch(fn.in[fn.i]))
       ELSE /\ fn.i \in 1..Len(fn.in)
            /\ isLikelyCs2Patch(fn.in[fn.i])
            /\ fn.out = [sourceLink |-> fn.in[fn.i].link, textLen |-> fn.in[fn.i].textLen]

\* the second of three entries was selected: the first is rejected, the
\* third, also acceptable, was not examined
C20_Witness ==
  /\ fn.op = "select" /\ fn.done
  /\ fn.in = <<EntryX, EntryB, EntryA>>
  /\ fn.i = 2 /\ fn.out.sourceLink = LinkB

\* ---------------------------------------------------------------- C21
\* C21: within one cycle the marker is written at most once and only after
\* every send call of the cycle has returned, never before or between its
\* sends: the step that changes the marker is the step in which the cycle
\* that selected the new value returns.
C21_MarkerWrittenLast ==
  [][(api'.lastGid # api.lastGid /\ api'.phase # "down") =>
       \E c \in Cycles :
         /\ api.cyc[c].pc # "idle" /\ api'.cyc[c].pc = "idle"
         /\ api'.lastGid = api.cyc[c].item.gid
    ]_vars

\* ---------------------------------------------------------------- C23
\* C23: in the JSON-API variant a cycle asks the Finnish source first; it
\* asks the English source only after the Finnish source returned no item or
\* an item whose contents are absent or shorter than 20 characters after
\* trimming; and everything a cycle posts comes from one item, the Finnish
\* one when it was usable, else the English one.
C23_FallbackOrder ==
  \A c \in Cycles :
    LET r == api.cyc[c]
        short == r.first = NoNews \/ r.first.len < MinContents
    IN  /\ r.pc = "fi" => r.asked = <<"finnish">>
        /\ r.pc = "en" => (r.asked = <<"finnish", "english">> /\ short)
        /\ r.pc = "req" =>
             /\ r.item # NoNews /\ r.item.lang = r.usedLang
             /\ r.usedLang = "finnish" =>
                  (r.asked = <<"finnish">> /\ r.item.len >= MinContents)
             /\ r.usedLang = "english" =>
                  (r.asked = <<"finnish", "english">> /\ short)
             /\ \A i \in 1..Len(r.calls) :
                  /\ r.calls[i].gid = r.item.gid
                  /\ r.calls[i].src = r.usedLang /\ r.calls[i].tag = r.usedLang

\* the Finnish item had 19 characters of contents and the second chunk of the
\* English item is being posted
C23_Witness ==
  \E c \in Cycles :
    /\ api.cyc[c].pc = "req" /\ api.cyc[c].usedLang = "english"
    /\ api.cyc[c].first # NoNews /\ api.cyc[c].first.len = 19
    /\ api.cyc[c].k = 2

\* ---------------------------------------------------------------- C22
\* C22: only the first segment chunksWithHeader returns starts with the
\* header; every later segment is a slice of the body that is not empty,
\* starts where the slice of the segment before it ended, and is shorter
\* than LIMIT.
C22_LaterSegments ==
  (fn.op = "chunks" /\ fn.done) =>
    /\ fn.out[1].hdr
    /\ \A i \in 2..Len(fn.out) :
         /\ ~fn.out[i].hdr
         /\ fn.out[i].to > fn.out[i].from
         /\ fn.out[i].from = fn.out[i - 1].to
         /\ fn.out[i].to - fn.out[i].from < LIMIT

\* ---------------------------------------------------------------- C24
\* C24: whatever the input, the text htmlToText returns has no three
\* newlines in a row and neither starts nor ends with white space.
C24_NoBlankRuns ==
  (fn.op = "normalize" /\ fn.done) =>
    /\ \A i \in 1..(Len(fn.out) - 2) :
         ~(fn.out[i] = "\n" /\ fn.out[i + 1] = "\n" /\ fn.out[i + 2] = "\n")
    /\ fn.out # <<>> =>
         (fn.out[1] \notin WhiteSpace /\ fn.out[Len(fn.out)] \notin WhiteSpace)

\* three newlines between two letters came out as two
C24_Witness ==
  /\ fn.op = "normalize" /\ fn.done
  /\ fn.in = <<"o", "\n", "\n", "\n", "o">>
  /\ fn.out = <<"o", "\n", "\n", "o">>

\* ---------------------------------------------------------------- C25
\* C25: the marker is always null or the non-empty link of an entry the
\* selection accepts; while the process lives it changes only when a cycle
\* returns, to the non-empty link of that cycle's candidate, and once it
\* holds a link no step of a cycle, forced or not, makes it null or empty.
\* No candidate ever has an empty link.
C25_MarkerNeverCleared ==
  /\ [](/\ lastLink \in {NullLink} \cup { e.link : e \in { x \in {EntryA, EntryA0, EntryB, EntryX, EntryE} :
                                                          isLikelyCs2Patch(x) } }
        /\ lastLink # EmptyLink
        /\ \A c \in Cycles : Active(c) => SourceLink(c) \notin {NullLink, EmptyLink})
  /\ [][phase' # "down" =>
          /\ lastLink' # lastLink =>
               \E c \in Cycles :
                 /\ Ends(c) /\ Active(c)
                 /\ lastLink' = SourceLink(c)
                 /\ lastLink' \notin {NullLink, EmptyLink}
          /\ lastLink # NullLink => lastLink' \notin {NullLink, EmptyLink}
     ]_vars

\* a forced cycle for the link the marker holds ran to its end without a
\* fault, and the marker still holds the link
C25_Witness ==
  /\ phase = "polling" /\ force /\ forced /\ faults = 0
  /\ \A c \in Cycles : cyc[c].pc = "idle"
  /\ lastLink = LinkA
====
